---- MODULE Spec2Model ----
(***************************************************************************)
(* Model of src/main.py: the per-user settings store (one JSON table,      *)
(* rewritten through a temporary file on every save) and the callback      *)
(* handlers of the bot.                                                    *)
(*                                                                         *)
(* Encodings.                                                              *)
(*  - A Python dict with string keys is a TLA+ function whose domain is    *)
(*    the set of its keys (a record).  A UserSettings object is the record *)
(*    of its eight attributes.                                             *)
(*  - A JSON value that is not an object (a list, a number, ...) is the    *)
(*    value NonDict.                                                       *)
(*  - A file is [exists, readable, content].  A content is the bytes of    *)
(*    the file, as a string; the bytes that are the whole text json.dump   *)
(*    writes for a value d are kept as d itself (json_dump) and spelled   *)
(*    out (json_text) when a write lands on them or they are read.         *)
(*  - A dict keeps the order its keys were inserted in.  The table goes    *)
(*    with the sequence of its keys in that order (keys) wherever it is    *)
(*    loaded, changed or written.  An entry lists its fields in the order  *)
(*    of their declaration, as asdict gives them, then its other keys.     *)
(*  - A callback token is [head, colon, tail]: the text head when colon is *)
(*    FALSE, and the text head ":" tail (head has no colon) otherwise.     *)
(***************************************************************************)
EXTENDS Integers, Sequences, FiniteSets, TLC

VARIABLES
    DEFAULT_SETTINGS,   \* the module-level UserSettings object (line 40)
    ALLOWED_CHAT_IDS,   \* the module-level allow-list (line 94)
    disk,               \* the file system: [canon, tmp], the files at SETTINGS_PATH and at SETTINGS_PATH + ".tmp"
    ev,                 \* the last call or inbound event: [op, user, data]
    out,                \* what that call, or the handler of that event, has done so far
    nsaves,             \* set_user_settings calls made so far
    procs,              \* step-level runs of set_user_settings, one per process
    tasks               \* the handlers that have started and not ended, one per slot

vars == <<DEFAULT_SETTINGS, ALLOWED_CHAT_IDS, disk, ev, out, nsaves, procs, tasks>>

-----------------------------------------------------------------------------
(* Bounds *)

TableUsers == 38    \* users with an entry in the table of the step-level specifications
MaxSaves == 2       \* set_user_settings calls in one behaviour

\* The user ids of the model.
Users == {1, 2}

\* The bytes f of open(tmp_path, "w") (line 59) gathers before it hands them
\* to a write system call: io.DEFAULT_BUFFER_SIZE.
BufSize == 8192

\* The byte a hole of a file reads as: a control character, which no JSON text
\* holds anywhere.
NUL == "\f"

-----------------------------------------------------------------------------
(* SettingsModel: lines 26-40 *)

Fields ==
    {"notifications", "profile", "timeframe", "pump_pct", "volume_bucket", "marketcap", "coins_scope", "mode"}

\* UserSettings(): the dataclass defaults.
UserSettings ==
    [notifications |-> TRUE, profile |-> "normal", timeframe |-> "5m", pump_pct |-> 10, volume_bucket |-> "50k-200k", marketcap |-> ">10M", coins_scope |-> "top100", mode |-> "short"]

\* The value domains the source documents next to each field (lines 28-37).
FieldDomain ==
    [notifications |-> {TRUE, FALSE}, profile |-> {"conservative", "normal", "aggressive"}, timeframe |-> {"1m", "5m", "15m"}, pump_pct |-> {5, 10, 20}, volume_bucket |-> {"<50k", "50k-200k", ">200k"}, marketcap |-> {">10M", ">50M", "all"}, coins_scope |-> {"top10", "top100", "all"}, mode |-> {"short", "long", "both"}]

DomainValid(r) ==
    /\ DOMAIN r = Fields
    /\ \A f \in Fields : r[f] \in FieldDomain[f]

\* dataclasses.asdict: the dict of the declared fields of the object.
asdict(s) == [k \in Fields |-> s[k]]

-----------------------------------------------------------------------------
(* Python and JSON values *)

EmptyDict == [k \in {} |-> TRUE]

NonDict == [json_list |-> TRUE]

isinstance_dict(x) == "json_list" \notin DOMAIN x

\* str(user_id)
str(n) == ToString(n)

\* d.get(key, {})
dict_get(d, key) == IF key \in DOMAIN d THEN d[key] ELSE EmptyDict

\* a.update(b): the keys of both, b's value where b has the key.
dict_update(a, b) ==
    [k \in DOMAIN a \cup DOMAIN b |-> IF k \in DOMAIN b THEN b[k] ELSE a[k]]

\* d[key] = value
dict_set(d, key, value) ==
    [k \in DOMAIN d \cup {key} |-> IF k = key THEN value ELSE d[k]]

-----------------------------------------------------------------------------
(* JSON text: json.dump(data, f, ensure_ascii=False, indent=2), line 60 *)

\* The fields in the order of their declaration, which asdict keeps.
FieldOrder ==
    <<"notifications", "profile", "timeframe", "pump_pct", "volume_bucket", "marketcap", "coins_scope", "mode">>

RECURSIVE join(_)
join(chunks) == IF chunks = <<>> THEN "" ELSE Head(chunks) \o join(Tail(chunks))

\* The keys of a set, one after the other.
RECURSIVE listed(_)
listed(keys) ==
    IF keys = {} THEN <<>>
    ELSE LET key == CHOOSE k \in keys : TRUE IN <<key>> \o listed(keys \ {key})

\* The text of the value v a field holds: true or false for notifications, the
\* decimal digits for pump_pct, the quoted text for the others.
json_scalar(key, v) ==
    IF key = "notifications" THEN (IF v THEN "true" ELSE "false")
    ELSE IF key = "pump_pct" THEN ToString(v)
    ELSE "\"" \o v \o "\""

RECURSIVE field_chunks(_, _, _)
field_chunks(e, keys, i) ==
    IF i > Len(keys) THEN <<>>
    ELSE (IF i > 1 THEN <<",\n    ">> ELSE <<>>)
         \o <<"\"" \o keys[i] \o "\"", ": ", json_scalar(keys[i], e[keys[i]])>>
         \o field_chunks(e, keys, i + 1)

\* The chunks the encoder yields for one user's entry: its fields in the
\* order of their declaration, then its other keys.
entry_chunks(e) ==
    IF ~isinstance_dict(e) THEN <<"[]">>
    ELSE IF DOMAIN e = {} THEN <<"{}">>
    ELSE <<"{", "\n    ">>
         \o field_chunks(e, SelectSeq(FieldOrder, LAMBDA k : k \in DOMAIN e) \o listed(DOMAIN e \ Fields), 1)
         \o <<"\n  ", "}">>

\* The keys of the table d, the user ids ascending: the order of a table whose
\* users were stored in that order.
table_keys(d) ==
    IF ~isinstance_dict(d) THEN <<>>
    ELSE
    SelectSeq([u \in 1..TableUsers |-> str(u)], LAMBDA k : k \in DOMAIN d)
    \o listed(DOMAIN d \ {str(u) : u \in 1..TableUsers})

\* The chunks the encoder yields for the table d whose keys, in order, are
\* keys, one after the other, grouped: the opening of the table, one group per
\* entry, the closing.
iterencode(d, keys) ==
    IF ~isinstance_dict(d) THEN << <<"[]">> >>
    ELSE IF DOMAIN d = {} THEN << <<"{}">> >>
    ELSE << <<"{", "\n  ">> >>
         \o [i \in 1..Len(keys) |->
                (IF i > 1 THEN <<",\n  ">> ELSE <<>>) \o <<"\"" \o keys[i] \o "\"", ": ">> \o entry_chunks(d[keys[i]])]
         \o << <<"\n", "}">> >>

RECURSIVE join_first(_, _)
join_first(groups, n) == IF n = 0 THEN "" ELSE join_first(groups, n - 1) \o join(groups[n])

\* The text json.dump writes for d.
json_text(d, keys) == join_first(iterencode(d, keys), Len(iterencode(d, keys)))

\* The write system calls of json.dump(d, f): f gathers the chunks written to
\* it and hands them on before a chunk that would take it past BufSize bytes.
\* st is [from, pos, cuts]: where the bytes gathered start, where the next
\* chunk starts, where the writes made so far end.
RECURSIVE pack(_, _, _)
pack(chunks, i, st) ==
    IF i > Len(chunks) THEN st
    ELSE LET n == Len(chunks[i])
         IN  IF st.pos > st.from /\ st.pos + n - st.from > BufSize
             THEN pack(chunks, i + 1, [from |-> st.pos, pos |-> st.pos + n, cuts |-> Append(st.cuts, st.pos)])
             ELSE pack(chunks, i + 1, [st EXCEPT !.pos = st.pos + n])

RECURSIVE pack_groups(_, _, _)
pack_groups(groups, i, st) ==
    IF i > Len(groups) THEN st
    ELSE LET n == Len(join(groups[i]))
         IN  IF st.pos + n - st.from <= BufSize
             THEN pack_groups(groups, i + 1, [st EXCEPT !.pos = st.pos + n])
             ELSE pack_groups(groups, i + 1, pack(groups[i], 1, st))

\* Where the write system calls of json.dump(d, f) end, in order; the last
\* one, made when the with block closes f, ends where the text ends.
raw_cuts(d, keys) ==
    LET st == pack_groups(iterencode(d, keys), 1, [from |-> 0, pos |-> 0, cuts |-> <<>>])
    IN  Append(st.cuts, st.pos)

-----------------------------------------------------------------------------
(* JSON parsing: json.load(f), line 49 *)

Failed == [ok |-> FALSE, val |-> EmptyDict, keys |-> <<>>, pos |-> 0]

\* The value v, its keys in the order of the text when it is an object, and
\* where the text goes on after it.
Parsed(v, keys, pos) == [ok |-> TRUE, val |-> v, keys |-> keys, pos |-> pos]

\* The keys of d after d[key] = value: a new key comes last.
keys_set(keys, key) ==
    IF \E i \in 1..Len(keys) : keys[i] = key THEN keys ELSE Append(keys, key)

\* The character of s at i; none past its end.
ch(s, i) == IF i <= Len(s) THEN SubSeq(s, i, i) ELSE ""

Digit ==
    ("0" :> 0) @@ ("1" :> 1) @@ ("2" :> 2) @@ ("3" :> 3) @@ ("4" :> 4) @@ ("5" :> 5) @@ ("6" :> 6) @@ ("7" :> 7) @@ ("8" :> 8) @@ ("9" :> 9)

RECURSIVE skip_ws(_, _)
skip_ws(s, i) == IF ch(s, i) \in {" ", "\n", "\t", "\r"} THEN skip_ws(s, i + 1) ELSE i

\* Where the string that opens before i closes; 0 when it does not, or holds a
\* control character.
RECURSIVE string_end(_, _)
string_end(s, i) ==
    LET c == ch(s, i)
    IN  IF c = "\"" THEN i
        ELSE IF c \in {"", "\n", "\t", "\r", "\f", "\\"} THEN 0
        ELSE string_end(s, i + 1)

RECURSIVE digits_end(_, _)
digits_end(s, i) == IF ch(s, i) \in DOMAIN Digit THEN digits_end(s, i + 1) ELSE i

RECURSIVE nat(_, _, _)
nat(s, i, j) == IF j < i THEN 0 ELSE 10 * nat(s, i, j - 1) + Digit[ch(s, j)]

\* An integer: an optional sign, then 0 or digits that do not start with 0.
scan_number(s, i) ==
    LET neg  == ch(s, i) = "-"
        from == IF neg THEN i + 1 ELSE i
        to   == IF ch(s, from) = "0" THEN from + 1 ELSE digits_end(s, from)
    IN  IF to = from THEN Failed
        ELSE Parsed(IF neg THEN 0 - nat(s, from, to - 1) ELSE nat(s, from, to - 1), <<>>, to)

\* The value v found depth objects deep: what is no object is NonDict as the
\* table and as an entry of it, and itself as the value of a field.
scalar(depth, v) == IF depth < 2 THEN NonDict ELSE v

RECURSIVE parse_value(_, _, _)
RECURSIVE parse_members(_, _, _, _)

\* What follows a member at after: the closing brace, or a comma and the
\* next member.  put is st with the member in it.
member_end(s, st, put, after) ==
    IF ch(s, after) = "}" THEN [put EXCEPT !.done = TRUE, !.pos = after + 1]
    ELSE IF ch(s, after) = "," THEN [put EXCEPT !.pos = skip_ws(s, after + 1)]
    ELSE [st EXCEPT !.ok = FALSE]

\* The member key: v, v what was parsed after the colon.
member_value(s, st, key, v) ==
    IF ~v.ok THEN [st EXCEPT !.ok = FALSE]
    ELSE member_end(s, st, [st EXCEPT !.val = dict_set(st.val, key, v.val), !.keys = keys_set(st.keys, key)], skip_ws(s, v.pos))

\* The member whose key closes at e: the colon, then the value.
member_key(s, st, depth, e) ==
    IF ch(s, skip_ws(s, e + 1)) # ":" THEN [st EXCEPT !.ok = FALSE]
    ELSE member_value(s, st, SubSeq(s, st.pos + 1, e - 1), parse_value(s, skip_ws(s, skip_ws(s, e + 1) + 1), depth + 1))

\* One "key": value of an object, from its opening quote at st.pos, with the
\* comma or the closing brace after it.  A key met twice keeps its place and
\* the later value.
parse_member(s, st, depth) ==
    IF ch(s, st.pos) # "\"" \/ string_end(s, st.pos + 1) = 0 THEN [st EXCEPT !.ok = FALSE]
    ELSE member_key(s, st, depth, string_end(s, st.pos + 1))

\* The members after those that gave half.
members_rest(s, half, depth, k) ==
    IF half.done \/ ~half.ok THEN half ELSE parse_members(s, half, depth, k)

\* The members of an object up to its closing brace, at most 2^k of them.
parse_members(s, st, depth, k) ==
    IF k = 0 THEN parse_member(s, st, depth)
    ELSE members_rest(s, parse_members(s, st, depth, k - 1), depth, k - 1)

\* The object whose members gave m.
object_of(m) == IF m.ok /\ m.done THEN Parsed(m.val, m.keys, m.pos) ELSE Failed

\* The string that closes at e, 0 when it does not close.
string_of(s, i, depth, e) ==
    IF e = 0 THEN Failed ELSE Parsed(scalar(depth, SubSeq(s, i + 1, e - 1)), <<>>, e + 1)

\* The number n.
number_of(depth, n) == IF n.ok THEN Parsed(scalar(depth, n.val), <<>>, n.pos) ELSE Failed

RECURSIVE log2(_)
log2(n) == IF n <= 1 THEN 0 ELSE 1 + log2((n + 1) \div 2)

\* The JSON value that starts at i: an object, an empty list, a string without
\* escapes, an integer, true or false.  No text of the model holds another.
parse_value(s, i, depth) ==
    LET c == ch(s, i)
    IN  IF c = "{"
        THEN IF ch(s, skip_ws(s, i + 1)) = "}" THEN Parsed(EmptyDict, <<>>, skip_ws(s, i + 1) + 1)
             ELSE object_of(parse_members(s, [ok |-> TRUE, done |-> FALSE, pos |-> skip_ws(s, i + 1), val |-> EmptyDict, keys |-> <<>>], depth, log2(Len(s))))
        ELSE IF c = "["
        THEN IF ch(s, skip_ws(s, i + 1)) = "]" THEN Parsed(NonDict, <<>>, skip_ws(s, i + 1) + 1) ELSE Failed
        ELSE IF c = "\""
        THEN string_of(s, i, depth, string_end(s, i + 1))
        ELSE IF c = "-" \/ c \in DOMAIN Digit
        THEN number_of(depth, scan_number(s, i))
        ELSE IF i + 3 <= Len(s) /\ SubSeq(s, i, i + 3) = "true" THEN Parsed(scalar(depth, TRUE), <<>>, i + 4)
        ELSE IF i + 4 <= Len(s) /\ SubSeq(s, i, i + 4) = "false" THEN Parsed(scalar(depth, FALSE), <<>>, i + 5)
        ELSE Failed

\* The value v when nothing but white space follows it in s.
whole(s, v) ==
    IF v.ok /\ skip_ws(s, v.pos) = Len(s) + 1
    THEN [ok |-> TRUE, data |-> v.val, keys |-> v.keys]
    ELSE [ok |-> FALSE, data |-> EmptyDict, keys |-> <<>>]

\* json.loads(s): one value between white space and nothing else, or an error.
json_parse(s) == whole(s, parse_value(s, skip_ws(s, 1), 0))

-----------------------------------------------------------------------------
(* Files *)

\* content holding the bytes s.
Bytes(s) == [text |-> FALSE, d |-> EmptyDict, keys |-> <<>>, bytes |-> s]

\* content holding the text json.dump writes for d, all of it.
json_dump(d, keys) == [text |-> TRUE, d |-> d, keys |-> keys, bytes |-> ""]

\* The bytes of a content.
read(content) == IF content.text THEN json_text(content.d, content.keys) ELSE content.bytes

Absent == [exists |-> FALSE, readable |-> FALSE, content |-> Bytes("")]

File(content) == [exists |-> TRUE, readable |-> TRUE, content |-> content]

\* A file holding the text of the table t, its users in ascending order.
TableFile(t) == File(json_dump(t, table_keys(t)))

\* json.load: the value, or a parse error.
json_load(content) ==
    IF content.text THEN [ok |-> TRUE, data |-> content.d, keys |-> content.keys] ELSE json_parse(content.bytes)

\* The two paths; the file system fs maps each to the file it names.
SETTINGS_PATH == "canon"

\* tmp_path naming the table file itself: the save written in place.
tmp_path_direct == SETTINGS_PATH

\* tmp_path = SETTINGS_PATH + ".tmp", line 58
tmp_path == "tmp"

\* open(path, "w"): the file is created, or truncated in place.
open_w(fs, path) == [fs EXCEPT ![path] = File(Bytes(""))]

\* n bytes of a hole.
RECURSIVE zeros(_)
zeros(n) ==
    IF n = 0 THEN ""
    ELSE LET half == zeros(n \div 2) IN half \o half \o (IF n % 2 = 1 THEN NUL ELSE "")

\* The bytes old after a write of data at offset pos: data takes the place of
\* what was there, what lies after it stays, a gap before it reads as a hole.
overwrite(old, pos, data) ==
    (IF Len(old) >= pos THEN SubSeq(old, 1, pos) ELSE old \o zeros(pos - Len(old)))
    \o data
    \o (IF Len(old) > pos + Len(data) THEN SubSeq(old, pos + Len(data) + 1, Len(old)) ELSE "")

\* A write system call: data at offset pos of the file at path.
write_at(fs, path, pos, data) ==
    [fs EXCEPT ![path].content = Bytes(overwrite(read(fs[path].content), pos, data))]

\* The file at path, known as the text of d when its bytes are that text.
as_text(fs, path, d, keys, text) ==
    IF read(fs[path].content) = text THEN [fs EXCEPT ![path].content = json_dump(d, keys)] ELSE fs

\* The write system calls of json.dump(d, f) but the last, f just opened on
\* the file at path and no other handle writing to it.
write_first(fs, path, d, keys) ==
    LET cuts == raw_cuts(d, keys)
    IN  IF Len(cuts) = 1 THEN fs
        ELSE [fs EXCEPT ![path].content = Bytes(SubSeq(json_text(d, keys), 1, cuts[Len(cuts) - 1]))]

\* All the write system calls of json.dump(d, f), f just opened on the file
\* at path and no other handle writing to it: the file holds the text of d.
write_all(fs, path, d, keys) == [fs EXCEPT ![path].content = json_dump(d, keys)]

\* os.replace(src, dst), src existing: dst names the file src named, src
\* names nothing.
os_replace(fs, src, dst) ==
    IF src = dst THEN fs ELSE [fs EXCEPT ![dst] = fs[src], ![src] = Absent]

-----------------------------------------------------------------------------
(* SettingsStore: lines 44-77 *)

\* _load_all_settings without the isinstance test of line 50.
\* Lines 50-53: the parsed value when it is a dict, {} otherwise.
dict_of(p) == IF p.ok /\ isinstance_dict(p.data) THEN p.data ELSE EmptyDict

\* The keys of dict_of(p), in their order.
keys_of(p) == IF p.ok /\ isinstance_dict(p.data) THEN p.keys ELSE <<>>

_load_all_settings_any_json(f) ==
    IF ~f.exists THEN EmptyDict
    ELSE IF ~f.readable THEN EmptyDict
    ELSE json_load(f.content).data

\* _load_all_settings, lines 44-54, on the file f at SETTINGS_PATH.
_load_all_settings(f) ==
    IF ~f.exists THEN EmptyDict
    ELSE IF ~f.readable THEN EmptyDict
    ELSE dict_of(json_load(f.content))

\* The keys of the dict _load_all_settings returns, in their order.
_load_all_keys(f) ==
    IF ~f.exists THEN <<>>
    ELSE IF ~f.readable THEN <<>>
    ELSE keys_of(json_load(f.content))

\* merged_over with the update turned round: the defaults win.
merged_over_defaults_win(D, raw) ==
    IF isinstance_dict(raw) THEN dict_update(raw, asdict(D)) ELSE asdict(D)

\* merged = asdict(DEFAULT_SETTINGS); merged.update(raw) when raw is a dict
\* (lines 68-70).
merged_over(D, raw) ==
    IF isinstance_dict(raw) THEN dict_update(asdict(D), raw) ELSE asdict(D)

\* UserSettings(**merged), line 71: a keyword that is no field is a TypeError;
\* a field that is not given takes the dataclass default.
new_UserSettings(kw) ==
    IF DOMAIN kw \subseteq Fields
    THEN [err |-> "none", val |-> [k \in Fields |-> IF k \in DOMAIN kw THEN kw[k] ELSE UserSettings[k]]]
    ELSE [err |-> "TypeError", val |-> UserSettings]

\* The object line 71 made, or the exception it raised.
fresh(made) == [err |-> made.err, ref |-> "fresh", val |-> made.val]

\* get_user_settings handing out the DEFAULT_SETTINGS object itself when the
\* user has no entry.
get_user_settings_shared(D, f, user_id) ==
    LET all_data == _load_all_settings(f)
        raw      == dict_get(all_data, str(user_id))
        made     == new_UserSettings(merged_over(D, raw))
    IN  IF str(user_id) \in DOMAIN all_data
        THEN [err |-> made.err, ref |-> "fresh", val |-> made.val]
        ELSE [err |-> "none", ref |-> "default", val |-> D]

\* get_user_settings, lines 64-71: [err, ref, val].  ref tells whether the
\* object returned is a new one or the DEFAULT_SETTINGS object itself.
get_user_settings(D, f, user_id) ==
    fresh(new_UserSettings(merged_over(D, dict_get(_load_all_settings(f), str(user_id)))))

\* _save_all_settings, lines 57-61, on the file system fs, for the dict data
\* whose keys, in order, are keys.  fault names the system call that fails, if
\* one does: [fs, err].
_save_all_settings(fs, data, keys, fault) ==
    CASE fault = "open" ->
            [fs |-> fs, err |-> "OSError"]
      [] fault = "write" ->
            [fs |-> write_first(open_w(fs, tmp_path), tmp_path, data, keys), err |-> "OSError"]
      [] fault = "replace" ->
            [fs |-> write_all(open_w(fs, tmp_path), tmp_path, data, keys), err |-> "OSError"]
      [] OTHER ->
            [fs |-> os_replace(write_all(open_w(fs, tmp_path), tmp_path, data, keys), tmp_path, SETTINGS_PATH), err |-> "none"]

\* set_user_settings without the load of line 75: the table saved holds the
\* one entry.
set_user_settings_alone(fs, user_id, new_settings, fault) ==
    _save_all_settings(fs, dict_set(EmptyDict, str(user_id), asdict(new_settings)), <<str(user_id)>>, fault)

\* set_user_settings, lines 74-77: [fs, err].
set_user_settings(fs, user_id, new_settings, fault) ==
    LET all_data == _load_all_settings(fs[SETTINGS_PATH])
        keys     == _load_all_keys(fs[SETTINGS_PATH])
    IN  _save_all_settings(fs, dict_set(all_data, str(user_id), asdict(new_settings)), keys_set(keys, str(user_id)), fault)

Faults == {"none", "open", "write", "replace"}

-----------------------------------------------------------------------------
(* AccessGate: lines 97-102 *)

\* update.effective_chat is None
NoChat == 0

\* is_allowed without the test of line 99: membership only.
is_allowed_members_only(allowed, chat_id) ==
    chat_id # NoChat /\ chat_id \in allowed

\* is_allowed, lines 97-102, for the chat id of the update (NoChat: none).
is_allowed(allowed, chat_id) ==
    IF allowed = {} THEN TRUE ELSE chat_id # NoChat /\ chat_id \in allowed

-----------------------------------------------------------------------------
(* Callback tokens *)

Tok(h) == [head |-> h, colon |-> FALSE, tail |-> ""]

SetTok(h, t) == [head |-> h, colon |-> TRUE, tail |-> t]

\* data == lit, for a literal without a colon
text_eq(data, lit) == ~data.colon /\ data.head = lit

\* data.startswith(h + ":"), for h without a colon
startswith(data, h) == data.colon /\ data.head = h

\* data.split(":", 1)[1]
split1(data) == data.tail

\* int(text) for the texts of the model: the number, or a ValueError.
int(text) ==
    CASE text = "5" -> [err |-> "none", val |-> 5]
      [] text = "10" -> [err |-> "none", val |-> 10]
      [] text = "20" -> [err |-> "none", val |-> 20]
      [] text = "999" -> [err |-> "none", val |-> 999]
      [] OTHER -> [err |-> "ValueError", val |-> 0]

\* One part of raw.split(","): the text text, with white space around it when
\* padded.
Part(padded, text) == [padded |-> padded, text |-> text]

\* part.strip()
strip(part) == part.text

\* parse_chat_ids, lines 81-91, on raw given as the parts raw.split(",")
\* yields: the ids, in order, of the parts that are numbers.
RECURSIVE parse_chat_ids(_)
parse_chat_ids(parts) ==
    IF parts = <<>> THEN <<>>
    ELSE LET part == strip(Head(parts))
             rest == parse_chat_ids(Tail(parts))
         IN  IF part = "" THEN rest
             ELSE IF int(part).err # "none" THEN rest
             ELSE <<int(part).val>> \o rest

\* set(ids)
set(ids) == {ids[i] : i \in 1..Len(ids)}

\* The items of each submenu, lines 252-313: <<label, callback_data>>.
submenu_items ==
    [menu_profile |-> <<(<<"conservative", SetTok("set_profile", "conservative")>>), (<<"normal", SetTok("set_profile", "normal")>>), (<<"aggressive", SetTok("set_profile", "aggressive")>>)>>,
     menu_timeframe |-> <<(<<"1m", SetTok("set_tf", "1m")>>), (<<"5m", SetTok("set_tf", "5m")>>), (<<"15m", SetTok("set_tf", "15m")>>)>>,
     menu_pump |-> <<(<<">5%", SetTok("set_pump", "5")>>), (<<">10%", SetTok("set_pump", "10")>>), (<<">20%", SetTok("set_pump", "20")>>)>>,
     menu_volume |-> <<(<<"<50k", SetTok("set_vol", "<50k")>>), (<<"50k-200k", SetTok("set_vol", "50k-200k")>>), (<<">200k", SetTok("set_vol", ">200k")>>)>>,
     menu_marketcap |-> <<(<<">10M", SetTok("set_mc", ">10M")>>), (<<">50M", SetTok("set_mc", ">50M")>>), (<<"all", SetTok("set_mc", "all")>>)>>,
     menu_coins |-> <<(<<"top10", SetTok("set_coins", "top10")>>), (<<"top100", SetTok("set_coins", "top100")>>), (<<"all", SetTok("set_coins", "all")>>)>>,
     menu_mode |-> <<(<<"short", SetTok("set_mode", "short")>>), (<<"long", SetTok("set_mode", "long")>>), (<<"both", SetTok("set_mode", "both")>>)>>]

\* build_submenu, lines 135-139: the item buttons, then the back button.
build_submenu(items, back_cb) ==
    [i \in 1..(Len(items) + 1) |-> IF i <= Len(items) THEN items[i][2] ELSE Tok(back_cb)]

\* build_main_menu, lines 106-132: the callback_data of its buttons, in order.
build_main_menu(s) ==
    <<Tok("toggle_notifications"), Tok("menu_profile"), Tok("menu_timeframe"), Tok("menu_pump"), Tok("menu_volume"), Tok("menu_marketcap"), Tok("menu_coins"), Tok("menu_mode"), Tok("test_signal"), Tok("refresh"), Tok("reset")>>

\* The field each set_ prefix assigns, lines 316-329.
SetPrefixField ==
    [set_profile |-> "profile", set_tf |-> "timeframe", set_pump |-> "pump_pct", set_vol |-> "volume_bucket", set_mc |-> "marketcap", set_coins |-> "coins_scope", set_mode |-> "mode"]

\* build_test_signal_text with the direction SHORT for mode short alone.
build_test_signal_text_short_only(s) ==
    [direction |-> IF s.mode = "short" THEN "SHORT" ELSE "LONG",
     timeframe |-> s.timeframe,
     confidence |-> IF s.profile = "conservative" THEN "HIGH" ELSE IF s.profile = "normal" THEN "MEDIUM" ELSE "LOW",
     profile |-> s.profile, coins |-> s.coins_scope, mcap |-> s.marketcap, vol |-> s.volume_bucket, pump |-> s.pump_pct,
     growth |-> s.pump_pct + 7,
     volume |-> IF s.volume_bucket = "50k-200k" THEN "~120k" ELSE IF s.volume_bucket = "<50k" THEN "~30k" ELSE "~450k"]

\* build_test_signal_text, lines 154-189: the parts of the text that vary.
build_test_signal_text(s) ==
    [direction |-> IF s.mode \in {"short", "both"} THEN "SHORT" ELSE "LONG",
     timeframe |-> s.timeframe,
     confidence |-> IF s.profile = "conservative" THEN "HIGH" ELSE IF s.profile = "normal" THEN "MEDIUM" ELSE "LOW",
     profile |-> s.profile, coins |-> s.coins_scope, mcap |-> s.marketcap, vol |-> s.volume_bucket, pump |-> s.pump_pct,
     growth |-> s.pump_pct + 7,
     volume |-> IF s.volume_bucket = "50k-200k" THEN "~120k" ELSE IF s.volume_bucket = "<50k" THEN "~30k" ELSE "~450k"]

\* status_text, lines 142-153: the parts of the text that vary.
status_text(s) ==
    [s EXCEPT !.notifications = IF s.notifications THEN "ON" ELSE "OFF"]

-----------------------------------------------------------------------------
(* Handlers: lines 192-336 *)

\* A message that shows the main menu: header hdr, then status_text(s), with
\* the keyboard build_main_menu(s).
MainMenu(via, hdr, s) == [kind |-> "main", via |-> via, hdr |-> hdr, s |-> s]

SubMenu(menu) == [kind |-> "sub", via |-> "edit", menu |-> menu]

Signal(s) == [kind |-> "signal", via |-> "reply", text |-> build_test_signal_text(s)]

\* What a handler has done when it stops at an await or ends: D is
\* DEFAULT_SETTINGS, fs the two files, s0 the settings the handler loaded (line
\* 197, 207 or 219), err the exception it raised, saves the calls of
\* set_user_settings it made, msgs the messages it has sent or asked to send,
\* at where it is: "raised" when it ended with err, "returned" when it
\* returned, "send" when it waits at its last await, for the message it sent.
Outcome(D, fs, s0, admitted, answered, err, saves, msgs) ==
    [D |-> D, fs |-> fs,
     out |-> [s0 |-> s0, admitted |-> admitted, answered |-> answered, err |-> err, saves |-> saves, msgs |-> msgs,
              at |-> IF err # "none" THEN "raised" ELSE IF admitted THEN "send" ELSE "returned"]]

\* The handler waits at the await of line at, with more to do after it.
Awaiting(r, at) == [r EXCEPT !.out.at = at]

\* s0 of a handler that loaded nothing.
NotLoaded == [k \in {} |-> TRUE]

\* obj.field = value on the object obj = [ref, val]: when obj is the
\* DEFAULT_SETTINGS object itself, it is that object which changes.
setattr(D, obj, field, value) ==
    [D |-> IF obj.ref = "default" THEN [D EXCEPT ![field] = value] ELSE D,
     obj |-> [obj EXCEPT !.val[field] = value]]

\* save_and_show with the exception of the save swallowed.
save_and_show_swallow(D, fs, s0, user_id, s, fault, hdr) ==
    LET w == set_user_settings(fs, user_id, s, fault)
    IN  Outcome(D, w.fs, s0, TRUE, TRUE, "none", 1, <<MainMenu("edit", hdr, s)>>)

\* Line 336 after the save w of line 335: the main menu for s under header
\* hdr, unless the save raised.
shown(D, w, s0, s, hdr) ==
    IF w.err = "none"
    THEN Outcome(D, w.fs, s0, TRUE, TRUE, "none", 1, <<MainMenu("edit", hdr, s)>>)
    ELSE Outcome(D, w.fs, s0, TRUE, TRUE, w.err, 1, <<>>)

\* The tail of a mutating branch: set_user_settings(user_id, s), then the main
\* menu under header hdr, unless the save raised.
save_and_show(D, fs, s0, user_id, s, fault, hdr) ==
    shown(D, set_user_settings(fs, user_id, s, fault), s0, s, hdr)

\* The set_ branches, lines 316-336.
set_branch(D, fs, user_id, s, data, fault) ==
    LET field == SetPrefixField[data.head]
        num   == int(split1(data))
    IN  IF field = "pump_pct" /\ num.err # "none"
        THEN Outcome(D, fs, s.val, TRUE, TRUE, num.err, 0, <<>>)
        ELSE LET m == setattr(D, s, field, IF field = "pump_pct" THEN num.val ELSE split1(data))
             IN  save_and_show(m.D, fs, s.val, user_id, m.obj.val, fault, "saved")

\* The reset branch removing the user's entry from the table instead of
\* storing the defaults under it.
reset_branch_delete(D, fs, user_id, s, fault) ==
    LET all_data == _load_all_settings(fs[SETTINGS_PATH])
        w        == _save_all_settings(fs, [k \in DOMAIN all_data \ {str(user_id)} |-> all_data[k]], SelectSeq(_load_all_keys(fs[SETTINGS_PATH]), LAMBDA k : k # str(user_id)), fault)
    IN  Outcome(D, w.fs, s.val, TRUE, TRUE, w.err, 1, IF w.err = "none" THEN <<MainMenu("edit", "reset", D)>> ELSE <<>>)

\* The reset branch without the assignment of line 232.
reset_branch_keep(D, fs, user_id, s, fault) ==
    save_and_show(D, fs, s.val, user_id, s.val, fault, "reset")

\* The reset branch, lines 231-235: s = DEFAULT_SETTINGS, saved and shown.
reset_branch(D, fs, user_id, s, fault) ==
    save_and_show(D, fs, s.val, user_id, D, fault, "reset")

\* The toggle branch saving s as it was loaded.
toggle_branch_keep(D, fs, user_id, s, fault) ==
    save_and_show(D, fs, s.val, user_id, s.val, fault, "panel")

\* The toggle branch, lines 237-241.
toggle_branch(D, fs, user_id, s, fault) ==
    LET m == setattr(D, s, "notifications", ~s.val.notifications)
    IN  save_and_show(m.D, fs, s.val, user_id, m.obj.val, fault, "panel")

\* branch_of with no test for "back" (line 227).
branch_of_no_back(data) ==
    IF text_eq(data, "refresh") THEN "refresh"
    ELSE IF text_eq(data, "reset") THEN "reset"
    ELSE IF text_eq(data, "toggle_notifications") THEN "toggle"
    ELSE IF text_eq(data, "test_signal") THEN "test_signal"
    ELSE IF ~data.colon /\ data.head \in DOMAIN submenu_items THEN "menu"
    ELSE IF \E h \in DOMAIN SetPrefixField : startswith(data, h) THEN "set"
    ELSE "fallback"

\* The branch of on_callback that takes the token data: the tests of lines
\* 223-329 in their order, the else of line 330 last.
branch_of(data) ==
    IF text_eq(data, "refresh") THEN "refresh"
    ELSE IF text_eq(data, "back") THEN "back"
    ELSE IF text_eq(data, "reset") THEN "reset"
    ELSE IF text_eq(data, "toggle_notifications") THEN "toggle"
    ELSE IF text_eq(data, "test_signal") THEN "test_signal"
    ELSE IF ~data.colon /\ data.head \in DOMAIN submenu_items THEN "menu"
    ELSE IF \E h \in DOMAIN SetPrefixField : startswith(data, h) THEN "set"
    ELSE "fallback"

\* The branches of lines 223-336 for the settings s line 219 loaded, b the
\* branch that takes the token data.
on_callback_branch(D, fs, user_id, s, b, data, fault) ==
    IF s.err # "none" THEN Outcome(D, fs, NotLoaded, TRUE, TRUE, s.err, 0, <<>>)
    ELSE IF b \in {"refresh", "back"}
    THEN Outcome(D, fs, s.val, TRUE, TRUE, "none", 0, <<MainMenu("edit", "panel", s.val)>>)
    ELSE IF b = "reset"
    THEN reset_branch(D, fs, user_id, s, fault)
    ELSE IF b = "toggle"
    THEN toggle_branch(D, fs, user_id, s, fault)
    ELSE IF b = "test_signal"
    THEN Awaiting(Outcome(D, fs, s.val, TRUE, TRUE, "none", 0, <<Signal(s.val)>>), "246")
    ELSE IF b = "menu"
    THEN Outcome(D, fs, s.val, TRUE, TRUE, "none", 0, <<SubMenu(data.head)>>)
    ELSE IF b = "set"
    THEN set_branch(D, fs, user_id, s, data, fault)
    ELSE Outcome(D, fs, s.val, TRUE, TRUE, "none", 0, <<MainMenu("edit", "panel", s.val)>>)

\* on_callback from the return of query.answer() to its next await, lines
\* 218-336: the load, the branch, the save, and the first message.
on_callback_run(D, fs, user_id, data, fault) ==
    on_callback_branch(D, fs, user_id, get_user_settings(D, fs.canon, user_id), branch_of(data), data, fault)

\* The reply of a command for the settings s it loaded: the main menu under
\* header hdr.
replied(D, fs, s, hdr) ==
    IF s.err # "none" THEN Outcome(D, fs, NotLoaded, TRUE, FALSE, s.err, 0, <<>>)
    ELSE Outcome(D, fs, s.val, TRUE, FALSE, "none", 0, <<MainMenu("reply", hdr, s.val)>>)

\* command_run without the gate of lines 193-194 and 203-204.
command_run_ungated(D, allowed, fs, chat_id, user_id, hdr) ==
    LET s == get_user_settings(D, fs.canon, user_id)
    IN  IF s.err # "none" THEN Outcome(D, fs, NotLoaded, TRUE, FALSE, s.err, 0, <<>>)
        ELSE Outcome(D, fs, s.val, TRUE, FALSE, "none", 0, <<MainMenu("reply", hdr, s.val)>>)

\* command_run storing the settings it loaded, as a first load that creates
\* the user's entry would.
command_run_saving(D, allowed, fs, chat_id, user_id, hdr) ==
    IF ~is_allowed(allowed, chat_id) THEN Outcome(D, fs, NotLoaded, FALSE, FALSE, "none", 0, <<>>)
    ELSE
    LET s == get_user_settings(D, fs.canon, user_id)
    IN  IF s.err # "none" THEN Outcome(D, fs, NotLoaded, TRUE, FALSE, s.err, 0, <<>>)
        ELSE Outcome(D, set_user_settings(fs, user_id, s.val, "none").fs, s.val, TRUE, FALSE, "none", 1, <<MainMenu("reply", hdr, s.val)>>)

\* start (lines 192-199) and status_cmd (lines 202-208) up to their await; hdr
\* tells them apart.
command_run(D, allowed, fs, chat_id, user_id, hdr) ==
    IF ~is_allowed(allowed, chat_id) THEN Outcome(D, fs, NotLoaded, FALSE, FALSE, "none", 0, <<>>)
    ELSE replied(D, fs, get_user_settings(D, fs.canon, user_id), hdr)

-----------------------------------------------------------------------------
(* The bot, from an empty table.  A handler is a coroutine: it runs up to    *)
(* an await, waits there for the call it made to Telegram, and goes on when  *)
(* that call has returned.  main() builds the Application with its defaults, *)
(* which hand the next update to a handler when the handler of the one       *)
(* before has ended: Spec has one slot for a handler, a file system that     *)
(* does not fail, and CHAT_IDS unset (the default).  SpecFault has two       *)
(* slots, so that handlers of two updates may interleave at their awaits as  *)
(* they do when the Application handles updates together, failing system     *)
(* calls, and calls to Telegram that raise.                                  *)

\* The slots of the specifications in which handlers interleave, and of those
\* in which they do not.
Slots == {1, 2}

OneSlot == {1}

\* The chat of an update: chat 1, or no chat at all.
Chats == {1, NoChat}

\* Every token a menu offers.
OfferedTokens ==
    {build_main_menu(UserSettings)[i] : i \in 1..Len(build_main_menu(UserSettings))}
    \cup UNION {{build_submenu(submenu_items[m], "back")[i] : i \in 1..(Len(submenu_items[m]) + 1)} : m \in DOMAIN submenu_items}

\* Tokens no menu offers: a client can send any callback_data.
ForeignTokens ==
    {SetTok("set_pump", "999"), SetTok("set_profile", "turbo"), SetTok("set_pump", "abc"), SetTok("set_pump", ""), SetTok("set_mode", ""), Tok("bogus"), Tok("set_pump"), SetTok("refresh", "")}

\* The tokens the events of the model carry: the buttons of the main menu,
\* the back button, the last item of every submenu, and the foreign tokens.
Tokens ==
    {t \in OfferedTokens : ~t.colon}
    \cup {submenu_items[m][Len(submenu_items[m])][2] : m \in DOMAIN submenu_items}
    \cup ForeignTokens

NoEvent == [op |-> "none", user |-> 1, data |-> Tok("")]

NoOut == [s0 |-> NotLoaded, admitted |-> FALSE, answered |-> FALSE, err |-> "none", saves |-> 0, msgs |-> <<>>, at |-> "none"]

\* out of a handler the gate turned away: it returned at line 194, 204 or 213.
Dropped == [NoOut EXCEPT !.at = "returned"]

\* No step-level run of set_user_settings.
NoProcs == [p \in {} |-> TRUE]

\* A slot no handler runs in.
Idle == [op |-> "none", user |-> 1, data |-> Tok(""), out |-> NoOut]

\* No handler at all: the specifications of the store alone.
NoTasks == [t \in {} |-> TRUE]

Init ==
    /\ DEFAULT_SETTINGS = UserSettings
    /\ ALLOWED_CHAT_IDS = {}
    /\ disk = [canon |-> Absent, tmp |-> Absent]
    /\ ev = NoEvent
    /\ out = NoOut
    /\ nsaves = 0
    /\ procs = NoProcs
    /\ tasks = [t \in OneSlot |-> Idle]

\* The same with two slots.
InitTwo ==
    /\ DEFAULT_SETTINGS = UserSettings
    /\ ALLOWED_CHAT_IDS = {}
    /\ disk = [canon |-> Absent, tmp |-> Absent]
    /\ ev = NoEvent
    /\ out = NoOut
    /\ nsaves = 0
    /\ procs = NoProcs
    /\ tasks = [t \in Slots |-> Idle]

\* A handler starts in slot t when it is the first slot no handler runs in.
Free(t) ==
    /\ t \in DOMAIN tasks
    /\ tasks[t] = Idle
    /\ \A q \in DOMAIN tasks : q < t => tasks[q] # Idle

\* Whether on_callback calls set_user_settings for the token data, if nothing
\* raises before.
saves_of(data) == IF branch_of(data) \in {"reset", "toggle", "set"} THEN 1 ELSE 0

\* The calls of set_user_settings the handlers waiting at line 216 go on to make.
RECURSIVE pending(_, _)
pending(ts, slots) ==
    IF slots = {} THEN 0
    ELSE LET t == CHOOSE q \in slots : TRUE
         IN  (IF ts[t].out.at = "216" THEN saves_of(ts[t].data) ELSE 0) + pending(ts, slots \ {t})

\* The handler in slot t has run up to an await or to its end, and is now
\* task; D and fs are DEFAULT_SETTINGS and the files as it leaves them.
Ran(t, task, D, fs) ==
    /\ tasks' = [tasks EXCEPT ![t] = IF task.out.at \in {"returned", "raised"} THEN Idle ELSE task]
    /\ ev' = [op |-> task.op, user |-> task.user, data |-> task.data]
    /\ out' = task.out
    /\ DEFAULT_SETTINGS' = D
    /\ disk' = fs
    /\ nsaves' = nsaves + task.out.saves - tasks[t].out.saves
    /\ UNCHANGED <<ALLOWED_CHAT_IDS, procs>>

\* on_callback, lines 211-216: the gate, then query.answer() and the await of
\* it.
on_callback(t, chat_id, user_id, data) ==
    /\ Free(t)
    /\ nsaves + pending(tasks, DOMAIN tasks) + saves_of(data) <= MaxSaves
    /\ Ran(t, [op |-> "callback", user |-> user_id, data |-> data,
               out |-> IF is_allowed(ALLOWED_CHAT_IDS, chat_id)
                       THEN [NoOut EXCEPT !.admitted = TRUE, !.answered = TRUE, !.at = "216"]
                       ELSE Dropped],
           DEFAULT_SETTINGS, disk)

\* on_callback, lines 218-336, when query.answer() has returned: up to the
\* next await, or to the exception that ends the handler.
on_callback_answered(t, fault) ==
    /\ t \in DOMAIN tasks
    /\ tasks[t].out.at = "216"
    /\ \E r \in {on_callback_run(DEFAULT_SETTINGS, disk, tasks[t].user, tasks[t].data, fault)} :
          /\ r.out.saves = 0 => fault = "none"
          /\ Ran(t, [tasks[t] EXCEPT !.out = r.out], r.D, r.fs)

\* on_callback, line 248, when the reply_text of line 246 has returned: the
\* main menu for the settings s, and the await of it.
on_callback_replied(t) ==
    /\ t \in DOMAIN tasks
    /\ tasks[t].out.at = "246"
    /\ Ran(t, [tasks[t] EXCEPT !.out.msgs = Append(@, MainMenu("edit", "panel", tasks[t].out.s0)), !.out.at = "send"], DEFAULT_SETTINGS, disk)

\* The last await of a handler has returned: the handler returns.
handler_return(t) ==
    /\ t \in DOMAIN tasks
    /\ tasks[t].out.at = "send"
    /\ Ran(t, [tasks[t] EXCEPT !.out.at = "returned"], DEFAULT_SETTINGS, disk)

\* The call to Telegram the handler waits for raised: the exception leaves
\* the handler at its await.
await_raised(t) ==
    /\ t \in DOMAIN tasks
    /\ tasks[t].out.at \in {"216", "246", "send"}
    /\ Ran(t, [tasks[t] EXCEPT !.out.err = "TelegramError", !.out.at = "raised"], DEFAULT_SETTINGS, disk)

\* start, lines 192-199, up to the await of reply_text.
start(t, chat_id, user_id) ==
    /\ Free(t)
    /\ \E r \in {command_run(DEFAULT_SETTINGS, ALLOWED_CHAT_IDS, disk, chat_id, user_id, "start")} :
          Ran(t, [op |-> "start", user |-> user_id, data |-> Tok("/start"), out |-> r.out], r.D, r.fs)

\* status_cmd, lines 202-208, up to the await of reply_text.
status_cmd(t, chat_id, user_id) ==
    /\ Free(t)
    /\ \E r \in {command_run(DEFAULT_SETTINGS, ALLOWED_CHAT_IDS, disk, chat_id, user_id, "status")} :
          Ran(t, [op |-> "status", user |-> user_id, data |-> Tok("/status"), out |-> r.out], r.D, r.fs)

Next ==
    \/ \E t \in OneSlot, chat_id \in Chats, user_id \in Users, data \in Tokens : on_callback(t, chat_id, user_id, data)
    \/ \E t \in OneSlot : on_callback_answered(t, "none")
    \/ \E t \in OneSlot : on_callback_replied(t)
    \/ \E t \in OneSlot : handler_return(t)
    \/ \E t \in OneSlot, chat_id \in Chats, user_id \in Users : start(t, chat_id, user_id)
    \/ \E t \in OneSlot, chat_id \in Chats, user_id \in Users : status_cmd(t, chat_id, user_id)

Spec == Init /\ [][Next]_vars

\* The events of SpecFault: one of each mutating branch, and one that only reads.
FaultTokens == {Tok("reset"), Tok("toggle_notifications"), SetTok("set_pump", "20"), Tok("refresh")}

NextFault ==
    \/ \E t \in Slots, chat_id \in Chats, user_id \in Users, data \in FaultTokens : on_callback(t, chat_id, user_id, data)
    \/ \E t \in Slots, fault \in Faults : on_callback_answered(t, fault)
    \/ \E t \in Slots : handler_return(t)
    \/ \E t \in Slots : await_raised(t)

SpecFault == InitTwo /\ [][NextFault]_vars

-----------------------------------------------------------------------------
(* The bot behind the access gate: CHAT_IDS holds whatever the environment  *)
(* gave, the allow-list is parsed from it once at start-up, and updates     *)
(* arrive from listed chats, from other chats and without a chat.  Two      *)
(* slots: the handlers of two updates may interleave at their awaits.       *)

\* Values of CHAT_IDS, as their parts between commas: unset (""), one id,
\* padded ids, ids among empty parts and parts that are no numbers, and
\* nothing but such parts.
SampleChatIdsRaw ==
    {<<Part(FALSE, "")>>,
     <<Part(FALSE, "5")>>,
     <<Part(TRUE, "5"), Part(TRUE, "10")>>,
     <<Part(FALSE, "20"), Part(FALSE, ""), Part(FALSE, "abc"), Part(TRUE, "5"), Part(FALSE, "20")>>,
     <<Part(TRUE, ""), Part(FALSE, "abc")>>}

\* The chat of an update: none, or chat 5, 10 or 999.
GateChats == {NoChat, 5, 10, 999}

\* The events behind the gate: one that reads, one that saves, one unknown.
GateTokens == {Tok("refresh"), Tok("toggle_notifications"), Tok("bogus")}

\* The user of the updates behind the gate, which looks at the chat alone.
GateUsers == {1}

InitGate ==
    /\ DEFAULT_SETTINGS = UserSettings
    /\ ALLOWED_CHAT_IDS \in {set(parse_chat_ids(raw)) : raw \in SampleChatIdsRaw}
    /\ disk = [canon |-> Absent, tmp |-> Absent]
    /\ ev = NoEvent
    /\ out = NoOut
    /\ nsaves = 0
    /\ procs = NoProcs
    /\ tasks = [t \in Slots |-> Idle]

NextGate ==
    \/ \E t \in Slots, chat_id \in GateChats, user_id \in GateUsers, data \in GateTokens : on_callback(t, chat_id, user_id, data)
    \/ \E t \in Slots : on_callback_answered(t, "none")
    \/ \E t \in Slots : handler_return(t)
    \/ \E t \in Slots, chat_id \in GateChats, user_id \in GateUsers : start(t, chat_id, user_id)
    \/ \E t \in Slots, chat_id \in GateChats, user_id \in GateUsers : status_cmd(t, chat_id, user_id)

SpecGate == InitGate /\ [][NextGate]_vars

-----------------------------------------------------------------------------
(* The signal preview: the test_signal button pressed over a table that     *)
(* holds any record of the domains for user 1 and none for user 2.  Two     *)
(* slots: the two messages of one press may go out around those of another. *)

\* Every record whose fields hold values of their domains.
DomainRecords ==
    [notifications : FieldDomain.notifications, profile : FieldDomain.profile, timeframe : FieldDomain.timeframe, pump_pct : FieldDomain.pump_pct, volume_bucket : FieldDomain.volume_bucket, marketcap : FieldDomain.marketcap, coins_scope : FieldDomain.coins_scope, mode : FieldDomain.mode]

InitSignal ==
    /\ DEFAULT_SETTINGS = UserSettings
    /\ ALLOWED_CHAT_IDS = {}
    /\ disk \in {[canon |-> TableFile([k \in {str(1)} |-> r]), tmp |-> Absent] : r \in DomainRecords}
    /\ ev = NoEvent
    /\ out = NoOut
    /\ nsaves = 0
    /\ procs = NoProcs
    /\ tasks = [t \in Slots |-> Idle]

NextSignal ==
    \/ \E t \in Slots, chat_id \in Chats, user_id \in Users : on_callback(t, chat_id, user_id, Tok("test_signal"))
    \/ \E t \in Slots : on_callback_answered(t, "none")
    \/ \E t \in Slots : on_callback_replied(t)
    \/ \E t \in Slots : handler_return(t)

SpecSignal == InitSignal /\ [][NextSignal]_vars

-----------------------------------------------------------------------------
(* The store alone: get_user_settings and set_user_settings called on a     *)
(* table file that may hold anything.                                       *)

\* The values of each field's domain, in the order of its submenu.
FieldValues ==
    [profile |-> <<"conservative", "normal", "aggressive">>, timeframe |-> <<"1m", "5m", "15m">>, pump_pct |-> <<5, 10, 20>>, volume_bucket |-> <<"<50k", "50k-200k", ">200k">>, marketcap |-> <<">10M", ">50M", "all">>, coins_scope |-> <<"top10", "top100", "all">>, mode |-> <<"short", "long", "both">>]

\* The record whose every field holds the i-th value of its domain.
RecordAt(i) ==
    [k \in Fields |-> IF k = "notifications" THEN i # 2 ELSE FieldValues[k][i]]

SampleRecords == {UserSettings} \cup {RecordAt(i) : i \in 1..3}

\* Tables a file may hold: entries that are complete, that lack fields, that
\* carry keys which are no fields, that are no JSON object, that hold values
\* outside the domains.
SampleTables ==
    {EmptyDict,
     [k \in {"1"} |-> RecordAt(3)],
     [k \in {"1", "2"} |-> IF k = "1" THEN RecordAt(1) ELSE [timeframe |-> "1m", mode |-> "both"]],
     [k \in {"1"} |-> [timeframe |-> "1m", foo |-> "bar"]],
     [k \in {"2"} |-> NonDict],
     [k \in {"2"} |-> [RecordAt(1) EXCEPT !.profile = "turbo"]]}

\* The text of a table without its last two bytes.
CutShort == SubSeq(json_text([k \in {"1"} |-> RecordAt(3)], <<"1">>), 1, Len(json_text([k \in {"1"} |-> RecordAt(3)], <<"1">>)) - 2)

\* Files at SETTINGS_PATH: none, an unreadable one, an empty one, one cut
\* short, one that is valid JSON but no object, and one per table, as
\* json.dump wrote it and as the same bytes from elsewhere.
SampleFiles ==
    {Absent, [TableFile(EmptyDict) EXCEPT !.readable = FALSE], File(Bytes("")), File(Bytes(CutShort)), TableFile(NonDict)}
    \cup {TableFile(t) : t \in SampleTables}
    \cup {File(Bytes(json_text(t, table_keys(t)))) : t \in SampleTables}

InitStore ==
    /\ DEFAULT_SETTINGS = UserSettings
    /\ ALLOWED_CHAT_IDS = {}
    /\ disk \in [canon : SampleFiles, tmp : {Absent, File(Bytes("{"))}]
    /\ ev = NoEvent
    /\ out = NoOut
    /\ nsaves = 0
    /\ procs = NoProcs
    /\ tasks = NoTasks

\* A call of get_user_settings(user_id): out is [err, val]; ev.data is the
\* file the call found at SETTINGS_PATH.
call_get(user_id) ==
    /\ ev' = [op |-> "get", user |-> user_id, data |-> disk.canon]
    /\ out' = [err |-> get_user_settings(DEFAULT_SETTINGS, disk.canon, user_id).err, val |-> get_user_settings(DEFAULT_SETTINGS, disk.canon, user_id).val]
    /\ UNCHANGED <<DEFAULT_SETTINGS, ALLOWED_CHAT_IDS, disk, nsaves, procs, tasks>>

\* A call of set_user_settings(user_id, new_settings): out is [err, val], val
\* the record passed.
call_set(user_id, new_settings) ==
    /\ nsaves < MaxSaves
    /\ \E w \in {set_user_settings(disk, user_id, new_settings, "none")} :
          /\ disk' = w.fs
          /\ out' = [err |-> w.err, val |-> new_settings]
    /\ ev' = [op |-> "set", user |-> user_id, data |-> disk.canon]
    /\ nsaves' = nsaves + 1
    /\ UNCHANGED <<DEFAULT_SETTINGS, ALLOWED_CHAT_IDS, procs, tasks>>

NextStore ==
    \/ \E user_id \in Users : call_get(user_id)
    \/ \E user_id \in Users, new_settings \in SampleRecords : call_set(user_id, new_settings)

SpecStore == InitStore /\ [][NextStore]_vars

-----------------------------------------------------------------------------
(* The bot as the menus and stray tokens drive it: two users in one chat,   *)
(* from an empty table, sending every token of Tokens but the set_ tokens   *)
(* whose value is outside the field's domain.                               *)

FrameTokens == {t \in Tokens : branch_of(t) = "set" => t \in OfferedTokens}

NextFrame ==
    \/ \E t \in OneSlot, user_id \in Users, data \in FrameTokens : on_callback(t, 1, user_id, data)
    \/ \E t \in OneSlot : on_callback_answered(t, "none")
    \/ \E t \in OneSlot : on_callback_replied(t)
    \/ \E t \in OneSlot : handler_return(t)
    \/ \E t \in OneSlot, user_id \in Users : start(t, 1, user_id)
    \/ \E t \in OneSlot, user_id \in Users : status_cmd(t, 1, user_id)

SpecFrame == Init /\ [][NextFrame]_vars

-----------------------------------------------------------------------------
(* The bot used through its buttons alone: one user, from an empty table,   *)
(* pressing any button any menu offers.                                     *)

NextOffered ==
    \/ \E t \in OneSlot, data \in OfferedTokens : on_callback(t, 1, 1, data)
    \/ \E t \in OneSlot : on_callback_answered(t, "none")
    \/ \E t \in OneSlot : on_callback_replied(t)
    \/ \E t \in OneSlot : handler_return(t)
    \/ \E t \in OneSlot : start(t, 1, 1)
    \/ \E t \in OneSlot : status_cmd(t, 1, 1)

SpecOffered == Init /\ [][NextOffered]_vars

-----------------------------------------------------------------------------
(* The bot over a table it did not write, starting from a file that holds   *)
(* any of the sample tables.  Two slots: handlers interleave at their       *)
(* awaits, and each runs from its load to its save without one.             *)

InitTable ==
    /\ DEFAULT_SETTINGS = UserSettings
    /\ ALLOWED_CHAT_IDS = {}
    /\ disk \in {[canon |-> TableFile(t), tmp |-> Absent] : t \in SampleTables}
    /\ ev = NoEvent
    /\ out = NoOut
    /\ nsaves = 0
    /\ procs = NoProcs
    /\ tasks = [t \in Slots |-> Idle]

NextTable ==
    \/ \E t \in Slots, chat_id \in Chats, user_id \in Users, data \in FaultTokens : on_callback(t, chat_id, user_id, data)
    \/ \E t \in Slots : on_callback_answered(t, "none")
    \/ \E t \in Slots : handler_return(t)

SpecTable == InitTable /\ [][NextTable]_vars

-----------------------------------------------------------------------------
(* set_user_settings step by step: each process runs one call, the system   *)
(* calls of different processes interleave, and a process may crash between *)
(* any two of its steps.  SpecCrash runs one call, SpecSteps two at once.   *)

\* The table a file may hold before the calls: TableUsers users, each with
\* the default record.  Its text takes two write system calls, and the first
\* ends inside the entry of user 38, after its marketcap.
StepTable == [k \in {str(u) : u \in 1..TableUsers} |-> asdict(UserSettings)]

\* The users the calls are for.
StepUsers == {37, 38}

StepFiles == [canon : {Absent, TableFile(StepTable)}, tmp : {Absent, File(Bytes("{"))}]

\* The records the calls store: two whose texts are as long as each other,
\* field by field, and one whose text is not.
StepRecords == {RecordAt(2), [RecordAt(2) EXCEPT !.pump_pct = 20, !.mode = "both"], RecordAt(1)}

\* The processes of a step-level run.
Procs == {1, 2}

\* A process at the call of set_user_settings(user_id, new_settings).  pc is
\* the line the call is at, pre the file it found at SETTINGS_PATH when it was
\* called, all_data its local variable and keys the keys of all_data in their
\* order, text the text json.dump writes for all_data, cuts where the write system calls still to make end, fd the path
\* of the file its open handle writes to, off the offset of the handle, end
\* the place of the call among those that returned (0: it has not).
Called(d, user_id, new_settings) ==
    [pc |-> "load", user |-> user_id, rec |-> new_settings, pre |-> d.canon, all_data |-> EmptyDict, keys |-> <<>>, text |-> "", cuts |-> <<>>, fd |-> "none", off |-> 0, err |-> "none", end |-> 0]

InitSteps ==
    /\ DEFAULT_SETTINGS = UserSettings
    /\ ALLOWED_CHAT_IDS = {}
    /\ disk \in StepFiles
    /\ ev = NoEvent
    /\ out = NoOut
    /\ nsaves = 0
    /\ procs \in {[p \in Procs |-> Called(disk, u[p], r[p])] : u \in [Procs -> StepUsers], r \in [Procs -> StepRecords]}
    /\ tasks = NoTasks

InitCrash ==
    /\ DEFAULT_SETTINGS = UserSettings
    /\ ALLOWED_CHAT_IDS = {}
    /\ disk \in StepFiles
    /\ ev = NoEvent
    /\ out = NoOut
    /\ nsaves = 0
    /\ procs \in {[p \in {1} |-> Called(disk, u, r)] : u \in StepUsers, r \in SampleRecords}
    /\ tasks = NoTasks

Running(p) == procs[p].pc \in {"load", "open", "write", "replace"}

\* Lines 75-76: all_data = _load_all_settings(); all_data[str(user_id)] = asdict(new_settings)
load_step(p) ==
    /\ procs[p].pc = "load"
    /\ \E all_data \in {dict_set(_load_all_settings(disk[SETTINGS_PATH]), str(procs[p].user), asdict(procs[p].rec))},
          keys \in {keys_set(_load_all_keys(disk[SETTINGS_PATH]), str(procs[p].user))} :
          procs' = [procs EXCEPT ![p].pc = "open", ![p].all_data = all_data, ![p].keys = keys, ![p].text = json_text(all_data, keys), ![p].cuts = raw_cuts(all_data, keys)]
    /\ UNCHANGED <<DEFAULT_SETTINGS, ALLOWED_CHAT_IDS, disk, ev, out, nsaves, tasks>>

\* Line 59: open(tmp_path, "w")
open_step(p) ==
    /\ procs[p].pc = "open"
    /\ disk' = open_w(disk, tmp_path)
    /\ procs' = [procs EXCEPT ![p].pc = "write", ![p].fd = tmp_path, ![p].off = 0]
    /\ UNCHANGED <<DEFAULT_SETTINGS, ALLOWED_CHAT_IDS, ev, out, nsaves, tasks>>

\* Line 60: one write system call of json.dump(data, f), at the offset of the
\* handle; after the last one the with block has closed the file.
write_step(p) ==
    /\ procs[p].pc = "write"
    /\ disk' = IF procs[p].fd \in DOMAIN disk
               THEN as_text(write_at(disk, procs[p].fd, procs[p].off, SubSeq(procs[p].text, procs[p].off + 1, Head(procs[p].cuts))), procs[p].fd, procs[p].all_data, procs[p].keys, procs[p].text)
               ELSE disk
    /\ procs' = IF Len(procs[p].cuts) = 1
                THEN [procs EXCEPT ![p].pc = "replace", ![p].fd = "none", ![p].off = Head(procs[p].cuts), ![p].cuts = <<>>]
                ELSE [procs EXCEPT ![p].off = Head(procs[p].cuts), ![p].cuts = Tail(procs[p].cuts)]
    /\ UNCHANGED <<DEFAULT_SETTINGS, ALLOWED_CHAT_IDS, ev, out, nsaves, tasks>>

\* Where an open handle on the file at path points after os.replace(src, dst).
moved(path, src, dst) ==
    IF src = dst THEN path
    ELSE IF path = src THEN dst
    ELSE IF path = dst THEN "unlinked"
    ELSE path

\* Line 61: os.replace(tmp_path, SETTINGS_PATH); FileNotFoundError when
\* nothing is at tmp_path.
replace_step(p) ==
    /\ procs[p].pc = "replace"
    /\ IF disk[tmp_path].exists
       THEN /\ disk' = os_replace(disk, tmp_path, SETTINGS_PATH)
            /\ procs' = [q \in DOMAIN procs |-> IF q = p THEN [procs[q] EXCEPT !.pc = "done", !.end = 1 + Cardinality({x \in DOMAIN procs : procs[x].pc = "done"})]
                                         ELSE [procs[q] EXCEPT !.fd = moved(procs[q].fd, tmp_path, SETTINGS_PATH)]]
       ELSE /\ disk' = disk
            /\ procs' = [procs EXCEPT ![p].pc = "failed", ![p].err = "FileNotFoundError"]
    /\ UNCHANGED <<DEFAULT_SETTINGS, ALLOWED_CHAT_IDS, ev, out, nsaves, tasks>>

\* The process dies: its handle is closed, what it wrote stays.
crash(p) ==
    /\ Running(p)
    /\ procs' = [procs EXCEPT ![p].pc = "crashed", ![p].fd = "none"]
    /\ UNCHANGED <<DEFAULT_SETTINGS, ALLOWED_CHAT_IDS, disk, ev, out, nsaves, tasks>>

NextSteps ==
    \/ \E p \in Procs : load_step(p)
    \/ \E p \in Procs : open_step(p)
    \/ \E p \in Procs : write_step(p)
    \/ \E p \in Procs : replace_step(p)
    \/ \E p \in Procs : crash(p)

\* The steps of the one process of SpecCrash.
NextCrash ==
    \/ load_step(1)
    \/ open_step(1)
    \/ write_step(1)
    \/ replace_step(1)
    \/ crash(1)

SpecSteps == InitSteps /\ [][NextSteps]_vars

SpecCrash == InitCrash /\ [][NextCrash]_vars

-----------------------------------------------------------------------------
(* Claims *)

\* The table a file holds is a JSON object.
Parseable(f) ==
    f.exists /\ f.readable /\ json_load(f.content).ok /\ isinstance_dict(json_load(f.content).data)

\* The file is there and is unreadable, unparseable or no JSON object.
Corrupt(f) == f.exists /\ ~Parseable(f)

\* What get_user_settings(user_id) returns in the current state.
Loaded(user_id) == get_user_settings(DEFAULT_SETTINGS, disk.canon, user_id)

Returns(g, r) == g.err = "none" /\ g.val = r

\* C1: when set_user_settings(A, rA) and set_user_settings(B, rB), A # B, run
\* at once and neither process crashes, then in whatever order their steps
\* interleave the table file is at no time a partial write, and once both have
\* finished get_user_settings returns rA for A and rB for B.
C1_ConcurrentSavesKept ==
    (procs[1].user # procs[2].user /\ \A p \in Procs : procs[p].pc # "crashed") =>
        /\ disk.canon.exists => json_load(disk.canon.content).ok
        /\ (\A p \in Procs : procs[p].pc = "done")
              => \A p \in Procs : Returns(Loaded(procs[p].user), procs[p].rec)

\* The file a save of process p leaves when nothing else touches the table.
PostSave(p) ==
    File(json_dump(dict_set(_load_all_settings(procs[p].pre), str(procs[p].user), asdict(procs[p].rec)), keys_set(_load_all_keys(procs[p].pre), str(procs[p].user))))

\* C2: whatever step of a save the process crashes at, the file at
\* SETTINGS_PATH is the file from before the save or the complete file the
\* save writes, never anything else; it is the new file only once the replace
\* was done.
C2_CrashAtomic ==
    \A p \in DOMAIN procs :
        /\ disk.canon \in {procs[p].pre, PostSave(p)}
        /\ procs[p].pc # "done" => disk.canon = procs[p].pre
        /\ procs[p].pc = "done" => disk.canon = PostSave(p)

\* A crash in the middle of writing the temporary file, over an existing table.
C2_Witness ==
    /\ procs[1].pc = "crashed"
    /\ procs[1].pre.exists
    /\ Len(procs[1].cuts) = 1
    /\ disk.tmp.exists /\ disk.tmp.content = Bytes(SubSeq(procs[1].text, 1, procs[1].off))
    /\ str(procs[1].user) \in DOMAIN procs[1].all_data

\* C3: right after set_user_settings(u, r) with r domain-valid, whatever the
\* file held before, get_user_settings(u) returns r, field for field: the
\* bytes of the file parse to a table that holds r for u.
C3_RoundTrip ==
    (ev.op = "set" /\ out.err = "none" /\ DomainValid(out.val))
        => /\ Returns(Loaded(ev.user), out.val) /\ DOMAIN Loaded(ev.user).val = Fields
           /\ json_parse(read(disk.canon.content)).ok
           /\ dict_get(json_parse(read(disk.canon.content)).data, str(ev.user)) = asdict(out.val)
           /\ json_parse(read(disk.canon.content)) = json_load(disk.canon.content)

\* A save over a table in which the user's entry lacked fields and carried
\* an unknown key.
C3_Witness ==
    /\ ev.op = "set" /\ out.err = "none" /\ out.val = RecordAt(1)
    /\ Parseable(ev.data)
    /\ "foo" \in DOMAIN dict_get(_load_all_settings(ev.data), str(ev.user))

\* C6: when the entry of u is an object that lacks fields or carries keys that
\* are no fields, get_user_settings(u) returns normally: every field the entry
\* has with the entry's value, every other field with its default, and no
\* other key.
C6_PartialRepair ==
    (ev.op = "get" /\ isinstance_dict(dict_get(_load_all_settings(ev.data), str(ev.user))))
        => LET raw == dict_get(_load_all_settings(ev.data), str(ev.user))
           IN  /\ out.err = "none"
               /\ DOMAIN out.val = Fields
               /\ \A k \in Fields : out.val[k] = IF k \in DOMAIN raw THEN raw[k] ELSE UserSettings[k]

\* C7: over a file that is unreadable, unparseable or no JSON object,
\* get_user_settings raises nothing and returns the defaults for every user,
\* and a set_user_settings(u, r) that succeeds leaves a file that parses to a
\* JSON object from which get_user_settings(u) returns r.
C7_CorruptRecovered ==
    /\ Corrupt(disk.canon) => \A u \in Users : Returns(Loaded(u), UserSettings)
    /\ (ev.op = "get" /\ Corrupt(ev.data)) => Returns(out, UserSettings)
    /\ (ev.op = "set" /\ Corrupt(ev.data) /\ out.err = "none")
          => Parseable(disk.canon) /\ Returns(Loaded(ev.user), out.val)

\* A save that found valid JSON which is no object at SETTINGS_PATH.
C7_Witness ==
    /\ ev.op = "set" /\ out.err = "none" /\ out.val = RecordAt(3)
    /\ ev.data = TableFile(NonDict)

\* The entry of user_id in the table the file holds, {} when there is none.
Entry(user_id) == dict_get(_load_all_settings(disk.canon), str(user_id))

HasEntry(user_id) == str(user_id) \in DOMAIN _load_all_settings(disk.canon)

\* The last step was of the handler of an admitted callback, and that handler
\* has run past the await of line 216: it has loaded, saved and sent what its
\* branch loads, saves and sends before its next await.
Handling == ev.op = "callback" /\ out.admitted /\ out.at \in {"246", "send", "returned", "raised"} /\ out.err # "TelegramError"

\* C4: from an empty table, whatever tokens the callback events carry, every
\* stored record and every record get_user_settings returns holds in every
\* field a value of that field's domain.
C4_DomainInvariant ==
    \A u \in Users :
        /\ HasEntry(u) => DomainValid(Entry(u))
        /\ Loaded(u).err = "none" /\ DomainValid(Loaded(u).val)

\* A set_ token whose value is not in the domain of the field it names.
InvalidSelection(data) ==
    /\ data.colon
    /\ data.head \in DOMAIN SetPrefixField
    /\ IF SetPrefixField[data.head] = "pump_pct"
       THEN int(split1(data)).err # "none" \/ int(split1(data)).val \notin FieldDomain.pump_pct
       ELSE split1(data) \notin FieldDomain[SetPrefixField[data.head]]

\* C5: a SetField event whose value is outside the field's domain makes no
\* save, leaves the user's stored settings as they were loaded, and shows the
\* main menu for those unchanged settings.
C5_InvalidNoOp ==
    (Handling /\ InvalidSelection(ev.data)) =>
        /\ out.saves = 0
        /\ out.err = "none"
        /\ out.msgs = <<MainMenu("edit", "panel", out.s0)>>
        /\ Returns(Loaded(ev.user), out.s0)

\* C8: when the write of the temporary file or the replace fails in the
\* set_user_settings of a handler, the handler ends with that error, the file
\* at SETTINGS_PATH is exactly what it was, and no menu is shown.
C8_WriteFailure ==
    [][\A t \in Slots, fault \in Faults \ {"none"} :
          on_callback_answered(t, fault) =>
              /\ out'.err = "OSError"
              /\ out'.at = "raised"
              /\ tasks'[t] = Idle
              /\ out'.saves = 1
              /\ out'.msgs = <<>>
              /\ disk'.canon = disk.canon]_vars

\* A save that failed at the replace, over an existing table with the
\* temporary file left behind complete.
C8_Witness ==
    /\ ev.op = "callback" /\ out.err = "OSError" /\ out.saves = 1
    /\ HasEntry(ev.user)
    /\ Parseable(disk.tmp)
    /\ disk.tmp # disk.canon

\* C9: the reset event of a user whose settings differ from the defaults
\* stores the default record as the user's entry, shows the main menu for the
\* defaults, and get_user_settings then returns the defaults.
C9_ResetRestoresDefaults ==
    (Handling /\ ev.data = Tok("reset") /\ out.s0 # UserSettings) =>
        /\ out.saves = 1
        /\ HasEntry(ev.user) /\ Entry(ev.user) = asdict(UserSettings)
        /\ out.msgs = <<MainMenu("edit", "reset", UserSettings)>>
        /\ Returns(Loaded(ev.user), UserSettings)

\* A reset of settings that held a value no menu offers.
C9_Witness ==
    /\ ev.op = "callback" /\ ev.data = Tok("reset") /\ out.saves = 1
    /\ out.s0 # UserSettings /\ out.s0.pump_pct = 999

\* C10: after any edits, toggles and resets by any users, get_user_settings
\* returns exactly the default record for every user who has no entry, and
\* the DEFAULT_SETTINGS object still holds the defaults.
C10_DefaultOnFirstLoad ==
    /\ DEFAULT_SETTINGS = UserSettings
    /\ \A u \in Users : ~HasEntry(u) =>
          /\ Returns(Loaded(u), UserSettings)
          /\ Loaded(u).val = [notifications |-> TRUE, profile |-> "normal", timeframe |-> "5m", pump_pct |-> 10, volume_bucket |-> "50k-200k", marketcap |-> ">10M", coins_scope |-> "top100", mode |-> "short"]

\* Another user has saved twice; this one has no entry and has just been
\* shown the main menu by /start.
C10_Witness ==
    /\ nsaves = 2
    /\ \E u, v \in Users :
          /\ ~HasEntry(u) /\ HasEntry(v)
          /\ ev.user = u /\ ev.op = "start" /\ out.msgs = <<MainMenu("reply", "start", UserSettings)>>

\* What the claim says is_allowed returns for the chat of an update.
Listed(allowed, chat_id) ==
    IF allowed = {} THEN TRUE
    ELSE IF chat_id = NoChat THEN FALSE
    ELSE chat_id \in allowed

\* C11: with an empty allow-list every handler admits the update of any chat
\* and of no chat; with a non-empty one it admits exactly the updates whose
\* chat is a member, and none without a chat.
C11_AllowList ==
    [][\A t \in Slots, chat_id \in GateChats, user_id \in GateUsers :
          /\ start(t, chat_id, user_id) => out'.admitted = Listed(ALLOWED_CHAT_IDS, chat_id)
          /\ status_cmd(t, chat_id, user_id) => out'.admitted = Listed(ALLOWED_CHAT_IDS, chat_id)
          /\ \A data \in GateTokens :
                on_callback(t, chat_id, user_id, data) => out'.admitted = Listed(ALLOWED_CHAT_IDS, chat_id)]_vars

\* A list parsed from a CHAT_IDS with empty and non-numeric parts and a
\* repeated id, and a callback it admitted that saved.
C11_Witness ==
    /\ ALLOWED_CHAT_IDS = {5, 20}
    /\ ev.op = "callback" /\ out.admitted /\ out.saves = 1

\* C17: a command or callback the gate does not admit ends before anything is
\* loaded, answered, saved or sent and leaves the files and DEFAULT_SETTINGS as
\* they were; whatever was loaded, saved or sent was for an admitted update.
C17_DeniedDropped ==
    [][/\ \A t \in Slots, chat_id \in GateChats, user_id \in GateUsers :
            ~is_allowed(ALLOWED_CHAT_IDS, chat_id) =>
                /\ \A data \in GateTokens :
                      on_callback(t, chat_id, user_id, data) => (out' = Dropped /\ tasks' = tasks /\ disk' = disk /\ DEFAULT_SETTINGS' = DEFAULT_SETTINGS /\ nsaves' = nsaves)
                /\ start(t, chat_id, user_id) => (out' = Dropped /\ tasks' = tasks /\ disk' = disk /\ DEFAULT_SETTINGS' = DEFAULT_SETTINGS /\ nsaves' = nsaves)
                /\ status_cmd(t, chat_id, user_id) => (out' = Dropped /\ tasks' = tasks /\ disk' = disk /\ DEFAULT_SETTINGS' = DEFAULT_SETTINGS /\ nsaves' = nsaves)
       /\ (out'.s0 # NotLoaded \/ out'.saves > 0 \/ out'.msgs # <<>> \/ out'.answered) => out'.admitted
       /\ \A t \in Slots : tasks'[t] # Idle => tasks'[t].out.admitted]_vars

\* A callback dropped by a non-empty allow-list after an admitted one had
\* stored an entry for the same user.
C17_Witness ==
    /\ ALLOWED_CHAT_IDS # {}
    /\ ev.op = "callback" /\ ~out.admitted /\ out = Dropped
    /\ HasEntry(ev.user) /\ nsaves > 0

\* The text the claim gives for the settings s.
PreviewOf(s) ==
    [direction |-> CASE s.mode = "short" -> "SHORT" [] s.mode = "both" -> "SHORT" [] s.mode = "long" -> "LONG",
     confidence |-> CASE s.profile = "conservative" -> "HIGH" [] s.profile = "normal" -> "MEDIUM" [] s.profile = "aggressive" -> "LOW",
     growth |-> s.pump_pct + 7,
     volume |-> CASE s.volume_bucket = "<50k" -> "~30k" [] s.volume_bucket = "50k-200k" -> "~120k" [] s.volume_bucket = ">200k" -> "~450k",
     timeframe |-> s.timeframe, profile |-> s.profile, coins |-> s.coins_scope, mcap |-> s.marketcap, vol |-> s.volume_bucket, pump |-> s.pump_pct]

\* C12: the test_signal event over domain-valid settings sends, before the
\* main menu, the text whose direction is SHORT for mode short or both and
\* LONG for long, whose confidence is HIGH, MEDIUM, LOW for profile
\* conservative, normal, aggressive, whose growth is pump_pct + 7 and whose
\* volume is ~30k, ~120k, ~450k for <50k, 50k-200k, >200k: the text depends on
\* nothing but the settings, so equal settings give equal text.
C12_SignalPreview ==
    (Handling /\ ev.data = Tok("test_signal") /\ DomainValid(out.s0)) =>
        /\ out.err = "none"
        /\ out.msgs[1] = [kind |-> "signal", via |-> "reply", text |-> PreviewOf(out.s0)]
        /\ out.msgs = IF out.at = "246" THEN <<out.msgs[1]>> ELSE <<out.msgs[1], MainMenu("edit", "panel", out.s0)>>
        /\ out.s0 = Loaded(ev.user).val

\* The preview for mode both, profile aggressive, pump_pct 20, volume >200k.
C12_Witness ==
    /\ ev.op = "callback" /\ ev.data = Tok("test_signal") /\ out.admitted /\ out.at = "returned"
    /\ \E t \in Slots : tasks[t].out.at = "246"
    /\ out.s0 = RecordAt(3)
    /\ out.msgs[1].text.direction = "SHORT" /\ out.msgs[1].text.confidence = "LOW"
    /\ out.msgs[1].text.growth = 27 /\ out.msgs[1].text.volume = "~450k"

\* The process whose set_user_settings returned last.
LastDone == CHOOSE p \in Procs : procs[p].pc = "done" /\ \A q \in Procs : procs[q].end <= procs[p].end

\* C13: when two set_user_settings calls for the same user run at once and
\* neither process crashes, then in whatever order their steps interleave the
\* table file is at no time a partial write, both calls return normally, and
\* once they have, the user's entry is the record of the call that returned
\* last.
C13_SameUserLastWriterWins ==
    (procs[1].user = procs[2].user /\ \A p \in Procs : procs[p].pc # "crashed") =>
        /\ disk.canon.exists => json_load(disk.canon.content).ok
        /\ \A p \in Procs : procs[p].pc # "failed"
        /\ (\A p \in Procs : procs[p].pc = "done")
              => /\ HasEntry(procs[1].user)
                 /\ Entry(procs[1].user) = asdict(procs[LastDone].rec)

\* A token that is no event of the menus: it names no button and no set_
\* prefix, or it has a set_ prefix with an empty value, or with a value that
\* is no number where the field is pump_pct.
Unrecognised(data) ==
    IF \E h \in DOMAIN SetPrefixField : startswith(data, h)
    THEN \/ split1(data) = ""
         \/ SetPrefixField[data.head] = "pump_pct" /\ int(split1(data)).err # "none"
    ELSE data \notin OfferedTokens

\* C14: a callback whose token is no event of the menus ends without an
\* exception, makes no save, and shows the main menu for the settings as they
\* were loaded.
C14_UnknownNeverErrors ==
    (Handling /\ Unrecognised(ev.data)) =>
        /\ out.err = "none"
        /\ out.saves = 0
        /\ out.msgs = <<MainMenu("edit", "panel", out.s0)>>

\* A set_ token whose value is in the domain of the field it names.
ValidSelection(data) ==
    /\ \E h \in DOMAIN SetPrefixField : startswith(data, h)
    /\ ~InvalidSelection(data)

\* The value such a token carries, as the field holds it.
SelectedValue(data) ==
    IF SetPrefixField[data.head] = "pump_pct" THEN int(split1(data)).val ELSE split1(data)

\* After a toggle or a valid SetField the user's entry is the record the
\* handler loaded with that one field changed.
C15_Stored ==
    Handling =>
        /\ ev.data = Tok("toggle_notifications") =>
              /\ out.saves = 1 /\ out.err = "none"
              /\ HasEntry(ev.user)
              /\ Entry(ev.user) = [out.s0 EXCEPT !.notifications = ~out.s0.notifications]
              /\ \A k \in Fields \ {"notifications"} : Entry(ev.user)[k] = out.s0[k]
        /\ ValidSelection(ev.data) =>
              /\ out.saves = 1 /\ out.err = "none"
              /\ HasEntry(ev.user)
              /\ Entry(ev.user)[SetPrefixField[ev.data.head]] = SelectedValue(ev.data)
              /\ \A k \in Fields \ {SetPrefixField[ev.data.head]} : Entry(ev.user)[k] = out.s0[k]
              /\ DOMAIN Entry(ev.user) = Fields

\* C15: toggle_notifications stores the record the handler loaded with
\* notifications negated and nothing else changed; a SetField whose value is in
\* the field's domain stores the loaded record with that field set to that
\* value and nothing else changed; the record the handler loaded is the one
\* get_user_settings gave when the handler went on from line 216; and a toggle
\* of a user who has an entry stores that entry with notifications negated, so
\* that a second toggle stores the record the first one had loaded.
C15_SingleField ==
    [][/\ C15_Stored'
       /\ \A t \in OneSlot :
             on_callback_answered(t, "none") =>
                 /\ out'.s0 = Loaded(tasks[t].user).val
                 /\ (tasks[t].data = Tok("toggle_notifications") /\ HasEntry(tasks[t].user))
                       => Entry(tasks[t].user)' = [Entry(tasks[t].user) EXCEPT !.notifications = ~Entry(tasks[t].user).notifications]]_vars

\* Two toggles of one user, the second storing the defaults again.
C15_Witness ==
    /\ nsaves = 2
    /\ ev.op = "callback" /\ ev.data = Tok("toggle_notifications") /\ out.saves = 1
    /\ ~out.s0.notifications
    /\ Entry(ev.user) = asdict(UserSettings)

\* A token of an event that is to change nothing: refresh, back, test_signal,
\* a menu_ token, or a token that matches no branch of on_callback.
NonMutating(data) ==
    \/ data \in {Tok("refresh"), Tok("back"), Tok("test_signal")}
    \/ ~data.colon /\ data.head \in DOMAIN submenu_items
    \/ /\ data \notin {Tok("reset"), Tok("toggle_notifications")}
       /\ ~\E h \in DOMAIN SetPrefixField : startswith(data, h)

\* C16: /start, /status and a callback with refresh, back, a menu_ token,
\* test_signal or a token that matches no branch make no save and leave both
\* files, and so the table, exactly as they were; a user without an entry has
\* none afterwards.
C16_NonMutatingFrame ==
    [][(ev'.op \in {"start", "status"} \/ (ev'.op = "callback" /\ NonMutating(ev'.data))) =>
          /\ out'.saves = 0 /\ nsaves' = nsaves
          /\ disk' = disk
          /\ _load_all_settings(disk.canon)' = _load_all_settings(disk.canon)
          /\ \A u \in Users : HasEntry(u)' = HasEntry(u)
          /\ DEFAULT_SETTINGS' = DEFAULT_SETTINGS]_vars

\* A submenu opened by a user who has no entry, after another user has saved.
C16_Witness ==
    /\ ev.op = "callback" /\ ev.data = Tok("menu_pump") /\ out.msgs = <<SubMenu("menu_pump")>>
    /\ ~HasEntry(ev.user)
    /\ \E v \in Users : HasEntry(v)

\* C18: with events handled one at a time, a user who has an entry in the
\* table has one after every later event, whoever it is from; after a reset
\* the user's key is still there and holds the default record.
C18_EntriesKept ==
    [][/\ \A u \in Users : HasEntry(u) => HasEntry(u)'
       /\ (Handling /\ ev.data = Tok("reset"))'
             => (HasEntry(ev.user) /\ Entry(ev.user) = asdict(UserSettings))']_vars

\* A reset of a user whose entry had notifications off: the key is still in
\* the table, with the default record.
C18_Witness ==
    /\ ev.op = "callback" /\ ev.data = Tok("reset") /\ out.saves = 1 /\ nsaves = 2
    /\ ~out.s0.notifications
    /\ HasEntry(ev.user)
    /\ Entry(ev.user) = asdict(UserSettings)

\* The table the file at SETTINGS_PATH holds.
Table == _load_all_settings(disk.canon)

\* C20: with events handled one at a time over a parseable table, a reset,
\* toggle or SetField of user u saves a table that has u's key, every key it
\* had before and no other, and under every key but u's exactly the value that
\* was there, whatever that value is.
C20_OthersUntouched ==
    [][(ev'.op = "callback" /\ out'.saves = 1 /\ Parseable(disk.canon)) =>
          /\ Parseable(disk.canon)'
          /\ DOMAIN Table' = DOMAIN Table \cup {str(ev'.user)}
          /\ \A k \in DOMAIN Table \ {str(ev'.user)} : Table'[k] = Table[k]]_vars

\* A toggle of user 1 over a table in which user 2's entry holds two fields
\* only: that entry is as it was.
C20_Witness ==
    /\ ev.op = "callback" /\ ev.user = 1 /\ ev.data = Tok("toggle_notifications") /\ out.saves = 1
    /\ HasEntry(2) /\ Entry(2) = [timeframe |-> "1m", mode |-> "both"]
    /\ ~Entry(1).notifications

\* The callback tokens of the buttons the message msg carries.
ButtonsOf(msg) ==
    IF msg.kind = "main" THEN {build_main_menu(msg.s)[i] : i \in 1..Len(build_main_menu(msg.s))}
    ELSE IF msg.kind = "sub" THEN {build_submenu(submenu_items[msg.menu], "back")[i] : i \in 1..(Len(submenu_items[msg.menu]) + 1)}
    ELSE {}

\* The tokens of the buttons of the messages the last event sent.
ShownTokens == UNION {ButtonsOf(out.msgs[i]) : i \in 1..Len(out.msgs)}

\* C19: every token on a button of a main menu or submenu the bot shows is
\* taken by a branch of on_callback other than the final else; every set_
\* token on a button carries a value of the domain of the field its branch
\* assigns; and from an empty table, under presses of offered buttons only,
\* every stored record and every record loaded is domain-valid and no handler
\* raises.
C19_OfferedClosed ==
    /\ \A t \in ShownTokens \cup OfferedTokens :
          /\ branch_of(t) # "fallback"
          /\ branch_of(t) = "set" => ValidSelection(t)
    /\ ShownTokens \subseteq OfferedTokens
    /\ out.err = "none"
    /\ \A u \in Users :
          /\ HasEntry(u) => DomainValid(Entry(u))
          /\ Loaded(u).err = "none" /\ DomainValid(Loaded(u).val)

\* Two values picked from two submenus; the main menu shown after the second.
C19_Witness ==
    /\ nsaves = 2
    /\ ev.data = SetTok("set_pump", "5") /\ out.saves = 1
    /\ Entry(1) = [UserSettings EXCEPT !.pump_pct = 5, !.volume_bucket = "<50k"]
    /\ Tok("menu_volume") \in ShownTokens

====
